---- MODULE Spec2Model ----
(***************************************************************************)
(* Model of src/Test-Fresenel.py: the Streamlit script that, on "Generate  *)
(* Path Profile", fetches a terrain profile, fetches OSM buildings, builds *)
(* the LOS line and the first Fresnel zone, plots, and reports a verdict.  *)
(*                                                                         *)
(* Numbers.  Latitudes and longitudes are whole grid cells; a longitude    *)
(* lives on a ring of Circ cells.  np.linspace over num_points samples     *)
(* divides by num_points - 1, so every interpolated quantity (sample       *)
(* coordinates, distances, the LOS line) is kept as its numerator over     *)
(* Den = num_points - 1.  A Fresnel radius sqrt(q) is kept as the          *)
(* rational q = num/den it is the root of, or as NaN; comparisons against  *)
(* it are made on squares, so the arithmetic is exact.                     *)
(***************************************************************************)
EXTENDS Integers, Sequences, FiniteSets, TLC

VARIABLES
    tx_lat, tx_lon, tx_height,      \* widgets, lines 25-27
    rx_lat, rx_lon, rx_height,      \* widgets, lines 29-31
    frequency,                      \* widget, line 33 (GHz)
    terrain,                        \* what the elevation service knows of the path
    osm,                            \* the ways Overpass holds for the area
    pc,                             \* where the button handler stands
    status,                         \* data["status"] of the path request
    elevations, distances, los_line,
    bbox,                           \* <<south, west, north, east>> sent to Overpass
    building_geoms, building_heights,
    fresnel_radii,
    k,                              \* position of the plot loop in the zip
    lookups,                        \* outcomes of the per-building lookups so far
    drawn,                          \* the ax.vlines calls made
    obstruction, scan_i,            \* Step 5: the flag and the loop variable i
    message,                        \* the last st.error / st.success shown
    error                           \* the exception that reached line 145

inputs == <<tx_lat, tx_lon, tx_height, rx_lat, rx_lon, rx_height, frequency>>
world == <<terrain, osm>>
vars == <<inputs, world, pc, status, elevations, distances, los_line, bbox,
          building_geoms, building_heights, fresnel_radii, k, lookups, drawn,
          obstruction, scan_i, message, error>>

(***************************************************************************)
(* Bounds of the model.                                                    *)
(***************************************************************************)
num_points == 4
Circ == 4
MaxElev == 1
MaxFreq == 1
MaxWays == 2

(***************************************************************************)
(* Constants of the program.                                               *)
(***************************************************************************)
Margin == 2
SpeedOfLight == 3
PerGHz == 10
ClearNum == 3
ClearDen == 5
DefaultHeight == 10
LevelHeight == 3

Den == num_points - 1
Samples == 0..(num_points - 1)

Abs(x) == IF x < 0 THEN -x ELSE x
Min2(a, b) == IF a <= b THEN a ELSE b
Max2(a, b) == IF a >= b THEN a ELSE b

\* np.linspace(a, b, num_points)[i] = a + i*(b - a)/(num_points - 1), times Den.
Linspace(a, b) == [i \in Samples |-> a * Den + i * (b - a)]

\* A grid cell as a sample coordinate (times Den).
Cell(c) == c * Den

\* Shorter way round the ring of longitudes, in sample units.
RingDist(x) ==
    LET m == x % (Circ * Den) IN Min2(m, Circ * Den - m)

\* geodesic(p, q).meters: a metric on the cylinder of latitudes and ring of
\* longitudes; zero exactly when p = q, and it wraps where the longitude does.
Geodesic(p, q) == Abs(q[1] - p[1]) + RingDist(q[2] - p[2])

\* Thousandths of a degree, the unit of the bounding box.
Milli(c) == c * 1000

\* Lines 64-65, in the order the query at line 71 takes them.
BoundingBox(tlat, tlon, rlat, rlon) ==
    LET north == Milli(Max2(tlat, rlat)) + Margin
        south == Milli(Min2(tlat, rlat)) - Margin
        east == Milli(Max2(tlon, rlon)) + Margin
        west == Milli(Min2(tlon, tlon)) - Margin
    IN  <<south, west, north, east>>

(***************************************************************************)
(* Building heights, lines 87-100.  A tag value is a sequence of           *)
(* characters.                                                             *)
(***************************************************************************)
Digits == {"0", "1", "2", "3", "4", "5", "6", "7", "8", "9"}
DigitVal(c) ==
    CASE c = "0" -> 0 [] c = "1" -> 1 [] c = "2" -> 2 [] c = "3" -> 3
      [] c = "4" -> 4 [] c = "5" -> 5 [] c = "6" -> 6 [] c = "7" -> 7
      [] c = "8" -> 8 [] c = "9" -> 9

IsChar_m(c) == c = "m"
NotChar_m(c) == ~IsChar_m(c)
\* s.replace("m", "")
StripM(s) == SelectSeq(s, NotChar_m)

\* float(s) raises ValueError unless s is a number; here, a run of digits.
FloatRaises(s) == s = <<>> \/ \E i \in 1..Len(s) : s[i] \notin Digits

RECURSIVE FloatOf(_)
FloatOf(s) ==
    IF s = <<>> THEN 0
    ELSE 10 * FloatOf(SubSeq(s, 1, Len(s) - 1)) + DigitVal(s[Len(s)])

\* The body of the loop at lines 88-100 for one way's tags.
HeightOf(tags) ==
    IF "height" \in DOMAIN tags
    THEN IF FloatRaises(StripM(tags["height"]))
         THEN DefaultHeight
         ELSE FloatOf(StripM(tags["height"]))
    ELSE IF "building:levels" \in DOMAIN tags
    THEN IF FloatRaises(tags["building:levels"])
         THEN DefaultHeight
         ELSE FloatOf(tags["building:levels"]) * LevelHeight
    ELSE DefaultHeight

\* Polygon(pts) raises for a ring of one or two points.
PolygonRaises(n) == n \in {1, 2}

\* Lines 79-85: one polygon per way whose Polygon(pts) did not raise.
RECURSIVE Geoms(_)
Geoms(ways) ==
    IF ways = <<>> THEN <<>>
    ELSE LET n == Len(ways)
             rest == Geoms(SubSeq(ways, 1, n - 1))
         IN  IF PolygonRaises(ways[n].nodes)
             THEN rest
             ELSE Append(rest, [way |-> n, centroid |-> ways[n].centroid])

\* Lines 87-100: one height per way.
Heights(ways) == [j \in 1..Len(ways) |-> HeightOf(ways[j].tags)]

\* zip(building_geoms, building_heights), line 117.
Zip(geoms, heights) ==
    [j \in 1..Min2(Len(geoms), Len(heights)) |->
        [poly |-> geoms[j], height |-> heights[j]]]

(***************************************************************************)
(* Fresnel zone, lines 103-104.                                            *)
(***************************************************************************)
NaN == [nan |-> TRUE, num |-> 0, den |-> 1]

\* As FresnelRaises, had the distances been numpy floats: 0.0/0.0 is nan there.
FresnelRaises_numpy(f, L) == f = 0

\* Python float division: frequency * 1e9 = 0.0 at line 103, or
\* total_dist = 0.0 at line 104, raises ZeroDivisionError.
FresnelRaises(f, L) == f = 0 \/ L = 0

\* np.sqrt(wavelength * d * (L - d) / L): the radicand as num/den; the root
\* of a negative radicand, or of 0.0/0.0, is nan.
FresnelRadius(f, d, L) ==
    LET num == SpeedOfLight * d * (L - d)
        den == PerGHz * f * L * Den
    IN  IF den = 0 \/ num < 0 THEN NaN
        ELSE [nan |-> FALSE, num |-> num, den |-> den]

(***************************************************************************)
(* Step 5, lines 134-138.                                                  *)
(***************************************************************************)
\* As Exceeds, with >= for >.
Exceeds_ge(e, los, r) ==
    LET m == los - Den * e
    IN  IF r.nan THEN FALSE
        ELSE IF m <= 0 THEN TRUE
        ELSE ClearNum * ClearNum * Den * Den * r.num >= ClearDen * ClearDen * m * m * r.den

\* As Exceeds, against the whole first Fresnel zone instead of 60% of it.
Exceeds_whole(e, los, r) ==
    LET m == los - Den * e
    IN  IF r.nan THEN FALSE
        ELSE IF m < 0 THEN TRUE
        ELSE Den * Den * r.num > m * m * r.den

\* elevations[i] > los_line[i] - 0.6 * fresnel_radii[i], with e the elevation,
\* los the LOS numerator over Den and r the radius; nan compares false.
Exceeds(e, los, r) ==
    LET m == los - Den * e
    IN  IF r.nan THEN FALSE
        ELSE IF m < 0 THEN TRUE
        ELSE ClearNum * ClearNum * Den * Den * r.num > ClearDen * ClearDen * m * m * r.den

RECURSIVE Scan(_, _, _, _)
Scan(i, elev, los, rad) ==
    IF i = num_points THEN [obstruction |-> FALSE, i |-> num_points - 1]
    ELSE IF Exceeds(elev[i], los[i], rad[i]) THEN [obstruction |-> TRUE, i |-> i]
    ELSE Scan(i + 1, elev, los, rad)

(***************************************************************************)
(* The inputs and the world.                                               *)
(***************************************************************************)
Lats == {0, 1}
Lons == 0..(Circ - 1)
AntennaHeights == {0, 1}
Frequencies == 0..MaxFreq
Elevations == 0..MaxElev

HeightStrings == {<<"4", "m">>, <<"x">>}
LevelStrings == {<<"2">>, <<"x">>}
TagSets ==
    {<<>>}
    \cup {[t \in {"height"} |-> h] : h \in HeightStrings}
    \cup {[t \in {"building:levels"} |-> l] : l \in LevelStrings}
    \cup {[t \in {"height", "building:levels"} |->
             IF t = "height" THEN hl[1] ELSE hl[2]] : hl \in HeightStrings \X LevelStrings}
NodeCounts == {2, 4}
\* A way: how many nodes it has, the centroid shapely gives its polygon (in sample
\* coordinates, as the latitudes and longitudes of line 42-43), and its tags.
Ways == [nodes : NodeCounts, centroid : {<<0, 2>>}, tags : TagSets]
PlainWay == [nodes |-> 4, centroid |-> <<0, 2>>, tags |-> <<>>]

SeqsUpTo(S, n) == UNION {[1..m -> S] : m \in 0..n}

\* Any link over any terrain, in an area with at most one untagged building.
InitLink ==
    /\ tx_lat \in Lats /\ rx_lat \in Lats
    /\ tx_lon \in Lons /\ rx_lon \in Lons
    /\ tx_height \in AntennaHeights /\ rx_height \in AntennaHeights
    /\ frequency \in Frequencies
    /\ terrain \in [Samples -> Elevations]
    /\ (tx_lat = rx_lat /\ tx_lon = rx_lon) =>
           \A i \in Samples : terrain[i] = terrain[0]
    /\ osm \in {<<>>, <<PlainWay>>}

\* One westward link over flat ground, in an area with any buildings.
InitBuildings ==
    /\ tx_lat = 0 /\ rx_lat = 0
    /\ tx_lon = 2 /\ rx_lon = 0
    /\ tx_height = 1 /\ rx_height = 1
    /\ frequency = 1
    /\ \E e \in Elevations : terrain = [i \in Samples |-> e]
    /\ osm \in SeqsUpTo(Ways, MaxWays)

Init ==
    /\ InitLink \/ InitBuildings
    /\ pc = "idle"
    /\ status = "none"
    /\ elevations = <<>> /\ distances = <<>> /\ los_line = <<>>
    /\ bbox = <<>>
    /\ building_geoms = <<>> /\ building_heights = <<>>
    /\ fresnel_radii = <<>>
    /\ k = 0
    /\ lookups = <<>>
    /\ drawn = <<>>
    /\ obstruction = FALSE /\ scan_i = 0
    /\ message = "none"
    /\ error = "none"

(***************************************************************************)
(* The button handler, lines 36-146.                                       *)
(***************************************************************************)
TX == <<Cell(tx_lat), Cell(tx_lon)>>

\* Lines 127-143: show the plot, scan the terrain, report.
Detect ==
    LET res == Scan(0, elevations', los_line', fresnel_radii')
    IN  /\ obstruction' = res.obstruction
        /\ scan_i' = res.i
        /\ message' = IF res.obstruction THEN "LOS Obstructed" ELSE "LOS Clear"
        /\ pc' = "done"

\* Lines 36-46: the button is pressed and the path request goes out.
Generate ==
    /\ pc = "idle"
    /\ pc' = "await_elevation"
    /\ UNCHANGED <<inputs, world, status, elevations, distances, los_line, bbox,
                   building_geoms, building_heights, fresnel_radii, k, lookups,
                   drawn, obstruction, scan_i, message, error>>

\* As StatusOK, with the check at line 49 left out.
StatusOK_unchecked(s) == TRUE

\* data["status"] == "OK", line 49.
StatusOK(s) == s = "OK"

\* Lines 47-77: the path response arrives.
ElevationResponse(s) ==
    /\ pc = "await_elevation"
    /\ status' = s
    /\ IF ~StatusOK(s)
       THEN /\ message' = "Google Elevation API Error"
            /\ pc' = "stopped"
            /\ UNCHANGED <<elevations, distances, los_line, bbox>>
       ELSE /\ elevations' = terrain
            /\ distances' =
                  LET latitudes == Linspace(tx_lat, rx_lat)
                      longitudes == Linspace(tx_lon, rx_lon)
                  IN  [i \in Samples |-> Geodesic(TX, <<latitudes[i], longitudes[i]>>)]
            /\ los_line' = Linspace(terrain[0] + tx_height,
                                    terrain[num_points - 1] + rx_height)
            /\ bbox' = BoundingBox(tx_lat, tx_lon, rx_lat, rx_lon)
            /\ message' = "Fetching building data"
            /\ pc' = "await_overpass"
    /\ UNCHANGED <<inputs, world, building_geoms, building_heights, fresnel_radii,
                   k, lookups, drawn, obstruction, scan_i, error>>

\* requests.get or api.query raises: line 145.
RequestRaises ==
    /\ pc \in {"await_elevation", "await_overpass"}
    /\ error' = IF pc = "await_elevation" THEN "RequestException" ELSE "OverpassException"
    /\ message' = "Error"
    /\ pc' = "failed"
    /\ UNCHANGED <<inputs, world, status, elevations, distances, los_line, bbox,
                   building_geoms, building_heights, fresnel_radii, k, lookups,
                   drawn, obstruction, scan_i>>

\* Lines 77-113, and lines 127-143 when there is no building to plot.
OverpassResult ==
    /\ pc = "await_overpass"
    /\ building_geoms' = Geoms(osm)
    /\ building_heights' = Heights(osm)
    /\ UNCHANGED <<inputs, world, status, elevations, distances, los_line, bbox,
                   lookups, drawn>>
    /\ LET L == distances[num_points - 1]
       IN  IF FresnelRaises(frequency, L)
           THEN /\ error' = "ZeroDivisionError"
                /\ message' = "Error"
                /\ pc' = "failed"
                /\ UNCHANGED <<fresnel_radii, k, obstruction, scan_i>>
           ELSE /\ fresnel_radii' =
                      [i \in Samples |-> FresnelRadius(frequency, distances[i], L)]
                /\ UNCHANGED error
                /\ IF Len(building_geoms') > 0
                   THEN /\ k' = 1
                        /\ pc' = "await_lookup"
                        /\ UNCHANGED <<obstruction, scan_i, message>>
                   ELSE /\ UNCHANGED k
                        /\ Detect

\* Lines 118-125 for the k-th pair: the centroid's elevation arrives and the
\* building is drawn; after the last pair, lines 127-143.
LookupOK(elev) ==
    /\ pc = "await_lookup"
    /\ LET pairs == Zip(building_geoms, building_heights)
           b == pairs[k]
       IN  /\ drawn' = Append(drawn,
                  [way |-> b.poly.way,
                   d |-> Geodesic(TX, b.poly.centroid),
                   elev |-> elev,
                   height |-> b.height])
           /\ lookups' = Append(lookups, "ok")
           /\ UNCHANGED <<inputs, world, status, elevations, distances, los_line,
                          bbox, building_geoms, building_heights, fresnel_radii, error>>
           /\ IF k < Len(pairs)
              THEN /\ k' = k + 1
                   /\ UNCHANGED <<pc, obstruction, scan_i, message>>
              ELSE /\ UNCHANGED k
                   /\ Detect

\* Line 124 with no result for the centroid (or line 121 raising): line 145.
LookupFails ==
    /\ pc = "await_lookup"
    /\ lookups' = Append(lookups, "failed")
    /\ error' = "LookupError"
    /\ message' = "Error"
    /\ pc' = "failed"
    /\ UNCHANGED <<inputs, world, status, elevations, distances, los_line, bbox,
                   building_geoms, building_heights, fresnel_radii, k, drawn,
                   obstruction, scan_i>>

Next ==
    \/ Generate
    \/ \E s \in {"OK", "REQUEST_DENIED"} : ElevationResponse(s)
    \/ RequestRaises
    \/ OverpassResult
    \/ \E e \in Elevations : LookupOK(e)
    \/ LookupFails

Spec == Init /\ [][Next]_vars

(***************************************************************************)
(* The clearance rule as the properties state it, on the profile the run   *)
(* computed: sample i against los_line[i] - 0.6 * fresnel_radii[i].        *)
(***************************************************************************)
Profiled == fresnel_radii # <<>>
Reported == pc = "done"
Verdicts == {"LOS Obstructed", "LOS Clear"}
TxEqRx == tx_lat = rx_lat /\ tx_lon = rx_lon

\* Den * (los_line[i] - elevations[i]): how far sample i lies under the LOS line.
Under(i) == los_line[i] - Den * elevations[i]
\* (0.6 * radius * Den)^2 and (Under)^2, both times the radicand's denominator.
ShareSq(i) == 9 * Den * Den * fresnel_radii[i].num
UnderSq(i) == 25 * Under(i) * Under(i) * fresnel_radii[i].den

StrictlyAbove(i) ==
    ~fresnel_radii[i].nan /\ (Under(i) < 0 \/ ShareSq(i) > UnderSq(i))
AtThreshold(i) ==
    ~fresnel_radii[i].nan /\ Under(i) >= 0 /\ ShareSq(i) = UnderSq(i)
StrictlyBelow(i) ==
    ~fresnel_radii[i].nan /\ Under(i) > 0 /\ ShareSq(i) < UnderSq(i)

Least(S) == CHOOSE i \in S : \A j \in S : i <= j

\* C1, as stated: once the verdict is reported, if some terrain sample lies at or
\* above its clearance threshold (equality included), the verdict is Obstructed
\* and the scan stopped at the smallest such index.
C1_AtOrAboveObstructs ==
    Reported =>
        LET hit == {i \in Samples : StrictlyAbove(i) \/ AtThreshold(i)}
        IN  hit # {} =>
                /\ message = "LOS Obstructed"
                /\ obstruction
                /\ scan_i = Least(hit)

\* C1, amended: once the verdict is reported, if some terrain sample lies strictly
\* above its clearance threshold, the verdict is Obstructed and the scan stopped at
\* the smallest such index; a sample exactly at its threshold does not obstruct.
C1_StrictlyAboveObstructs ==
    Reported =>
        LET hit == {i \in Samples : StrictlyAbove(i)}
        IN  hit # {} =>
                /\ message = "LOS Obstructed"
                /\ obstruction
                /\ scan_i = Least(hit)

\* C1's case: two samples strictly above, one exactly at the threshold before
\* them, and the scan stopped at the first of the two.
C1_Witness ==
    /\ Reported
    /\ \E i, j \in Samples :
          /\ i < j
          /\ StrictlyAbove(i) /\ StrictlyAbove(j)
          /\ scan_i = i
          /\ \E h \in Samples : h < i /\ AtThreshold(h)

\* C2: once the verdict is reported, if every terrain sample lies strictly below
\* its clearance threshold, the verdict is Clear and no violation is reported.
C2_AllBelowIsClear ==
    (Reported /\ \A i \in Samples : StrictlyBelow(i)) =>
        /\ message = "LOS Clear"
        /\ ~obstruction

\* C2's case: a reported run whose every sample is strictly below, with an inner
\* sample that has a positive Fresnel radius.
C2_Witness ==
    /\ Reported
    /\ \A i \in Samples : StrictlyBelow(i)
    /\ \E i \in Samples : fresnel_radii[i].num > 0

C7_NoVerdictWithoutOK ==
    /\ status # "OK" =>
          /\ bbox = <<>> /\ elevations = <<>> /\ building_heights = <<>>
          /\ fresnel_radii = <<>> /\ drawn = <<>> /\ lookups = <<>>
          /\ message \notin Verdicts
          /\ pc \in {"idle", "await_elevation", "stopped", "failed"}
    /\ status \notin {"none", "OK"} =>
          /\ pc = "stopped"
          /\ message = "Google Elevation API Error"
          /\ error = "none"

\* C7's case: the service answered REQUEST_DENIED and the run stopped.
C7_Witness == status = "REQUEST_DENIED" /\ pc = "stopped"

\* C8: every Fresnel radius computed is a real, non-negative number (never NaN).
C8_RadiusIsReal ==
    Profiled => \A i \in Samples : ~fresnel_radii[i].nan /\ fresnel_radii[i].num >= 0

\* C10: the bounding box sent to Overpass contains both endpoints with the margin.
C10_BoxContainsEndpoints ==
    bbox # <<>> =>
        /\ bbox[1] <= Milli(Min2(tx_lat, rx_lat)) - 2
        /\ bbox[3] >= Milli(Max2(tx_lat, rx_lat)) + 2
        /\ bbox[2] <= Milli(Min2(tx_lon, rx_lon)) - 2
        /\ bbox[4] >= Milli(Max2(tx_lon, rx_lon)) + 2

(***************************************************************************)
(* Buildings.                                                              *)
(***************************************************************************)
\* The top of the drawn building b exceeds the clearance threshold of a sample
\* that lies at b's distance from TX.
Intrudes(b) ==
    \E i \in Samples :
        /\ distances[i] = b.d
        /\ ~fresnel_radii[i].nan
        /\ LET under == los_line[i] - Den * (b.elev + b.height)
           IN  \/ under < 0
               \/ 9 * Den * Den * fresnel_radii[i].num
                      > 25 * under * under * fresnel_radii[i].den

\* C3: when no terrain sample violates the clearance rule, a building whose top
\* exceeds the clearance threshold at its distance from TX makes the verdict
\* Obstructed.
C3_BuildingObstructs ==
    (/\ Reported
     /\ \A i \in Samples : ~StrictlyAbove(i)
     /\ \E n \in 1..Len(drawn) : Intrudes(drawn[n])) =>
        message = "LOS Obstructed"

\* The lowest terrain elevation of the path.
MinTerrain == Least({elevations[i] : i \in Samples})

\* C5: a building whose centroid lookup failed is drawn on the lowest terrain
\* elevation of the path, and the run does not end in the error branch for it.
C5_FailedLookupFallsBack ==
    \A n \in 1..Len(lookups) :
        lookups[n] = "failed" =>
            /\ pc # "failed"
            /\ Len(drawn) >= n
            /\ drawn[n].elev = MinTerrain

\* The priority chain: a parsable height tag, else a parsable levels tag, else the
\* default.
ChainHeight(tags) ==
    IF "height" \in DOMAIN tags /\ ~FloatRaises(StripM(tags["height"]))
    THEN FloatOf(StripM(tags["height"]))
    ELSE IF "building:levels" \in DOMAIN tags /\ ~FloatRaises(tags["building:levels"])
    THEN FloatOf(tags["building:levels"]) * 3
    ELSE 10

\* C6: every way's height follows the priority chain, a malformed height tag
\* falling back to the levels tag.
C6_HeightFollowsChain ==
    \A j \in 1..Len(building_heights) :
        building_heights[j] = ChainHeight(osm[j].tags)

\* C9: every building drawn pairs a way's footprint with the height resolved from
\* the tags of that same way.
C9_PairsComeFromOneWay ==
    \A n \in 1..Len(drawn) :
        drawn[n].height = HeightOf(osm[drawn[n].way].tags)

====
